---- MODULE Spec2Model ----
(***************************************************************************)
(* Model of src/utils/datatransform.ts (class Transform): the serializer   *)
(* and normalizer, the two deserializer entry points and the three         *)
(* iterator-draining routines.                                             *)
(*                                                                         *)
(* Text is a sequence of code points, a byte container's content is a      *)
(* sequence of bytes 0..255.  A JavaScript value is a record with the      *)
(* fields t (type tag), n (number / boolean / epoch milliseconds), s       *)
(* (code points of a string, bytes of a container), keys and items         *)
(* (members of a mapping, elements of a sequence).                         *)
(***************************************************************************)
EXTENDS Integers, Sequences, FiniteSets, TLC

VARIABLES
    \* --- one call of a drain routine
    variant,      \* which routine runs: iteratorToList / KVList / HistoryList
    pc,           \* where the call stands
    res,          \* the local res: the last NextResult, undefined at first
    allResults,   \* the local accumulator
    nextCalls,    \* iterator.next() invocations so far
    closeCalls,   \* iterator.close() invocations so far
    fetched,      \* the results the iterator has delivered, in order
    rejection,    \* the failure the iterator answered with, if it has
    returned,     \* the list the call resolved with, once it has
    thrown,       \* the error the call rejected with, once it has
    \* --- serializer / deserializer calls
    cstep,        \* "value": cx awaits serialize; "bytes": cin awaits decoding
    cx,           \* the value handed to serialize
    cin,          \* the byte content (or null / undefined) to deserialize
    retB,         \* outcome of bufferToObject on cin
    retU,         \* outcome of uInt8ArrayToObject on cin
    ukind,        \* the container shape uInt8ArrayToObject was given
    logger        \* the static logger: its error() calls, in order

drainVars ==
    <<variant, pc, res, allResults, nextCalls, closeCalls, fetched, rejection,
      returned, thrown>>
codecVars == <<cstep, cx, cin, retB, retU, ukind, logger>>
vars == <<drainVars, codecVars>>

\* ------------------------------------------------------------------ bounds
\* longest byte content enumerated for the deserializer entry points
MaxBytes == 3
\* longest string enumerated among the values handed to serialize
MaxStrLen == 2
\* most next() calls one drain call issues in the model
MaxFetch == 4

\* ------------------------------------------------------- characters, text
Ascii ==
    (" " :> 32) @@ ("\"" :> 34) @@ ("," :> 44) @@ ("/" :> 47) @@ ("0" :> 48) @@
    ("1" :> 49) @@ ("2" :> 50) @@ (":" :> 58) @@ ("[" :> 91) @@ ("\\" :> 92) @@
    ("]" :> 93) @@ ("a" :> 97) @@ ("b" :> 98) @@ ("e" :> 101) @@ ("f" :> 102) @@
    ("j" :> 106) @@ ("k" :> 107) @@ ("l" :> 108) @@ ("n" :> 110) @@
    ("o" :> 111) @@ ("r" :> 114) @@ ("s" :> 115) @@ ("t" :> 116) @@
    ("u" :> 117) @@ ("v" :> 118) @@ ("x" :> 120) @@ ("{" :> 123) @@
    ("}" :> 125)

\* the code points of a text written as a tuple of one-character strings
T(q) == [i \in 1..Len(q) |-> Ascii[q[i]]]

\* ------------------------------------------------------ JavaScript values
JV(t, n, s, keys, items) ==
    [t |-> t, n |-> n, s |-> s, keys |-> keys, items |-> items]

Null == JV("null", 0, <<>>, <<>>, <<>>)
Undefined == JV("undefined", 0, <<>>, <<>>, <<>>)
NaN == JV("NaN", 0, <<>>, <<>>, <<>>)
Bool(b) == JV("boolean", IF b THEN 1 ELSE 0, <<>>, <<>>, <<>>)
Num(n) == JV("number", n, <<>>, <<>>, <<>>)
Str(s) == JV("string", 0, s, <<>>, <<>>)
Date(ms) == JV("date", ms, <<>>, <<>>, <<>>)
Arr(items) == JV("array", 0, <<>>, <<>>, items)
Obj(keys, items) == JV("object", 0, <<>>, keys, items)
Buffer(bytes) == JV("Buffer", 0, bytes, <<>>, <<>>)
Uint8Array(bytes) == JV("Uint8Array", 0, bytes, <<>>, <<>>)

\* ------------------------------------------------- number <-> decimal text
RECURSIVE Dec(_)
Dec(n) == IF n < 10 THEN <<48 + n>> ELSE Dec(n \div 10) \o <<48 + (n % 10)>>

IsDigit(c) == c \in 48..57

RECURSIVE DigitsEnd(_, _)
DigitsEnd(s, i) ==
    IF i <= Len(s) /\ IsDigit(s[i]) THEN DigitsEnd(s, i + 1) ELSE i

RECURSIVE ToNat(_)
ToNat(d) ==
    IF d = <<>> THEN 0
    ELSE 10 * ToNat(SubSeq(d, 1, Len(d) - 1)) + (d[Len(d)] - 48)

\* ------------------------------------------------------------ UTF-8 codec
\* variant: one byte per code point below 256, as Buffer.from(text, 'latin1')
Utf8EncodeCharLatin1(c) ==
    IF c < 256 THEN <<c>>
    ELSE <<224 + (c \div 4096), 128 + ((c \div 64) % 64), 128 + (c % 64)>>

\* Buffer.from(string): the UTF-8 bytes of the code points
Utf8EncodeChar(c) ==
    IF c < 128 THEN <<c>>
    ELSE IF c < 2048 THEN <<192 + (c \div 64), 128 + (c % 64)>>
    ELSE <<224 + (c \div 4096), 128 + ((c \div 64) % 64), 128 + (c % 64)>>

RECURSIVE Utf8Encode(_)
Utf8Encode(s) ==
    IF s = <<>> THEN <<>> ELSE Utf8EncodeChar(Head(s)) \o Utf8Encode(Tail(s))

IsCont(b) == b \in 128..191

\* buffer.toString('utf8'): malformed bytes decode to U+FFFD
RECURSIVE Utf8Decode(_)
Utf8Decode(b) ==
    IF b = <<>> THEN <<>>
    ELSE IF b[1] < 128 THEN <<b[1]>> \o Utf8Decode(Tail(b))
    ELSE IF b[1] \in 194..223 /\ Len(b) >= 2 /\ IsCont(b[2])
        THEN <<(b[1] - 192) * 64 + (b[2] - 128)>> \o Utf8Decode(SubSeq(b, 3, Len(b)))
    ELSE IF b[1] \in 224..239 /\ Len(b) >= 3 /\ IsCont(b[2]) /\ IsCont(b[3])
            /\ (b[1] - 224) * 4096 + (b[2] - 128) * 64 + (b[3] - 128) >= 2048
        THEN <<(b[1] - 224) * 4096 + (b[2] - 128) * 64 + (b[3] - 128)>>
             \o Utf8Decode(SubSeq(b, 4, Len(b)))
    ELSE <<65533>> \o Utf8Decode(Tail(b))

\* Uint8Array.prototype.toString: the decimal bytes joined by commas
RECURSIVE JoinBytes(_)
JoinBytes(b) ==
    IF b = <<>> THEN <<>>
    ELSE IF Len(b) = 1 THEN Dec(b[1])
    ELSE Dec(b[1]) \o <<44>> \o JoinBytes(Tail(b))

\* container.toString(): Buffer overrides Uint8Array's toString
toString(c) == IF c.t = "Buffer" THEN Utf8Decode(c.s) ELSE JoinBytes(c.s)

\* --------------------------------------------------------------- JSON.parse
\* Grammar of the texts the model builds: no sign, fraction, exponent or
\* \u escape (none of - + . E u is followed to a valid form in the alphabet).
IsWs(c) == c \in {32, 9, 10, 13}

RECURSIVE SkipWs(_, _)
SkipWs(s, i) == IF i <= Len(s) /\ IsWs(s[i]) THEN SkipWs(s, i + 1) ELSE i

Fail == [ok |-> FALSE, v |-> Null, pos |-> 0]
Ok(v, p) == [ok |-> TRUE, v |-> v, pos |-> p]

Escapes ==
    (34 :> 34) @@ (92 :> 92) @@ (47 :> 47) @@ (98 :> 8) @@ (102 :> 12) @@
    (110 :> 10) @@ (114 :> 13) @@ (116 :> 9)

ParseLiteral(s, i, word, v) ==
    IF i + Len(word) - 1 <= Len(s) /\ SubSeq(s, i, i + Len(word) - 1) = word
    THEN Ok(v, i + Len(word)) ELSE Fail

ParseNumber(s, i) ==
    IF s[i] = 48 THEN Ok(Num(0), i + 1)
    ELSE LET e == DigitsEnd(s, i) IN Ok(Num(ToNat(SubSeq(s, i, e - 1))), e)

RECURSIVE ParseChars(_, _, _)
ParseChars(s, i, acc) ==
    IF i > Len(s) THEN Fail
    ELSE IF s[i] = 34 THEN Ok(Str(acc), i + 1)
    ELSE IF s[i] = 92 THEN
        IF i + 1 <= Len(s) /\ s[i + 1] \in DOMAIN Escapes
        THEN ParseChars(s, i + 2, Append(acc, Escapes[s[i + 1]]))
        ELSE Fail
    ELSE IF s[i] < 32 THEN Fail
    ELSE ParseChars(s, i + 1, Append(acc, s[i]))

\* a later duplicate of a key replaces the value, the key keeps its place
PutMember(keys, items, k, v) ==
    IF \E j \in 1..Len(keys) : keys[j] = k
    THEN [ks |-> keys,
          vs |-> [j \in 1..Len(items) |-> IF keys[j] = k THEN v ELSE items[j]]]
    ELSE [ks |-> Append(keys, k), vs |-> Append(items, v)]

RECURSIVE ParseValue(_, _)
RECURSIVE ParseElements(_, _, _)
RECURSIVE ParseMembers(_, _, _, _)

ParseElements(s, i, acc) ==
    LET r == ParseValue(s, i)
        j == SkipWs(s, r.pos)
    IN  IF ~r.ok \/ j > Len(s) THEN Fail
        ELSE IF s[j] = 44 THEN ParseElements(s, j + 1, Append(acc, r.v))
        ELSE IF s[j] = 93 THEN Ok(Arr(Append(acc, r.v)), j + 1)
        ELSE Fail

ParseMembers(s, i, keys, items) ==
    LET a == SkipWs(s, i)
        k == IF a <= Len(s) /\ s[a] = 34 THEN ParseChars(s, a + 1, <<>>) ELSE Fail
        c == SkipWs(s, k.pos)
        r == IF k.ok /\ c <= Len(s) /\ s[c] = 58 THEN ParseValue(s, c + 1) ELSE Fail
        j == SkipWs(s, r.pos)
        m == PutMember(keys, items, k.v.s, r.v)
    IN  IF ~r.ok \/ j > Len(s) THEN Fail
        ELSE IF s[j] = 44 THEN ParseMembers(s, j + 1, m.ks, m.vs)
        ELSE IF s[j] = 125 THEN Ok(Obj(m.ks, m.vs), j + 1)
        ELSE Fail

ParseValue(s, i0) ==
    LET i == SkipWs(s, i0)
    IN  IF i > Len(s) THEN Fail
        ELSE IF s[i] = 123 THEN
            LET j == SkipWs(s, i + 1)
            IN  IF j <= Len(s) /\ s[j] = 125 THEN Ok(Obj(<<>>, <<>>), j + 1)
                ELSE ParseMembers(s, i + 1, <<>>, <<>>)
        ELSE IF s[i] = 91 THEN
            LET j == SkipWs(s, i + 1)
            IN  IF j <= Len(s) /\ s[j] = 93 THEN Ok(Arr(<<>>), j + 1)
                ELSE ParseElements(s, i + 1, <<>>)
        ELSE IF s[i] = 34 THEN ParseChars(s, i + 1, <<>>)
        ELSE IF IsDigit(s[i]) THEN ParseNumber(s, i)
        ELSE IF s[i] = 110 THEN ParseLiteral(s, i, T(<<"n", "u", "l", "l">>), Null)
        ELSE IF s[i] = 116 THEN ParseLiteral(s, i, T(<<"t", "r", "u", "e">>), Bool(TRUE))
        ELSE IF s[i] = 102
            THEN ParseLiteral(s, i, T(<<"f", "a", "l", "s", "e">>), Bool(FALSE))
        ELSE Fail

\* JSON.parse(text): ok = FALSE stands for the SyntaxError it throws
JSONparse(text) ==
    LET r == ParseValue(text, 1)
    IN  IF r.ok /\ SkipWs(text, r.pos) > Len(text) THEN r ELSE Fail

\* ----------------------------------------------------------- JSON.stringify
EscapeChar(c) ==
    IF c = 34 THEN <<92, 34>>
    ELSE IF c = 92 THEN <<92, 92>>
    ELSE IF c = 8 THEN <<92, 98>>
    ELSE IF c = 12 THEN <<92, 102>>
    ELSE IF c = 10 THEN <<92, 110>>
    ELSE IF c = 13 THEN <<92, 114>>
    ELSE IF c = 9 THEN <<92, 116>>
    ELSE <<c>>

RECURSIVE EscapeText(_)
EscapeText(s) ==
    IF s = <<>> THEN <<>> ELSE EscapeChar(Head(s)) \o EscapeText(Tail(s))

Quote(s) == <<34>> \o EscapeText(s) \o <<34>>

RECURSIVE JSONstringify(_)
RECURSIVE StringifyElements(_, _)
RECURSIVE StringifyMembers(_, _, _)

StringifyElements(items, i) ==
    IF i > Len(items) THEN <<>>
    ELSE (IF i > 1 THEN <<44>> ELSE <<>>) \o JSONstringify(items[i])
         \o StringifyElements(items, i + 1)

StringifyMembers(keys, items, i) ==
    IF i > Len(keys) THEN <<>>
    ELSE (IF i > 1 THEN <<44>> ELSE <<>>) \o Quote(keys[i]) \o <<58>>
         \o JSONstringify(items[i]) \o StringifyMembers(keys, items, i + 1)

JSONstringify(v) ==
    IF v.t = "null" THEN T(<<"n", "u", "l", "l">>)
    ELSE IF v.t = "boolean" THEN
        IF v.n = 1 THEN T(<<"t", "r", "u", "e">>) ELSE T(<<"f", "a", "l", "s", "e">>)
    ELSE IF v.t = "number" THEN Dec(v.n)
    ELSE IF v.t = "string" THEN Quote(v.s)
    ELSE IF v.t = "array" THEN <<91>> \o StringifyElements(v.items, 1) \o <<93>>
    ELSE <<123>> \o StringifyMembers(v.keys, v.items, 1) \o <<125>>

\* ------------------------------------------------- normalizer, serializer
RECURSIVE normalizePayload(_)
normalizePayload(value) ==
    IF value.t = "date" THEN Num(value.n)
    ELSE IF value.t = "string" THEN value
    ELSE IF value.t = "array" THEN
        Arr([i \in 1..Len(value.items) |-> normalizePayload(value.items[i])])
    ELSE IF value.t = "object" THEN
        Obj(value.keys,
            [i \in 1..Len(value.items) |-> normalizePayload(value.items[i])])
    ELSE value

\* the text of normalizePayload(value).toString() for a date or a string
NormalizedText(value) ==
    LET n == normalizePayload(value)
    IN  IF n.t = "number" THEN Dec(n.n) ELSE n.s

serialize(value) ==
    IF value.t = "Buffer" THEN value
    ELSE IF value.t = "date" \/ value.t = "string"
        THEN Buffer(Utf8Encode(NormalizedText(value)))
    ELSE Buffer(Utf8Encode(JSONstringify(normalizePayload(value))))

\* ------------------------------------------------------------ deserializer
\* parseFloat(text): the leading digit run, NaN when there is none
parseFloat(text) ==
    LET i == SkipWs(text, 1)
        e == DigitsEnd(text, i)
    IN  IF e > i THEN Num(ToNat(SubSeq(text, i, e - 1))) ELSE NaN

\* a === b for a number a and a byte container b: operands of different
\* types are never strictly equal
StrictEquals(a, b) == a.t = b.t /\ a.t # "NaN" /\ a = b

\* the outcome of one call: the value returned, or raised = TRUE for a
\* TypeError, and the logger.error calls the call made
Returned(v, logs) == [called |-> TRUE, raised |-> FALSE, v |-> v, logs |-> logs]
Raised == [called |-> TRUE, raised |-> TRUE, v |-> Undefined, logs |-> <<>>]
NotCalled == [called |-> FALSE, raised |-> FALSE, v |-> Undefined, logs |-> <<>>]

LogEntry(label, text) == [label |-> label, text |-> text]

\* variant: the zero-length test is missing
bufferToObjectNoEmptyCheck(buffer) ==
    IF buffer.t = "null" \/ buffer.t = "undefined" THEN Returned(Null, <<>>)
    ELSE LET bufferString == toString(buffer)
             parsed == JSONparse(bufferString)
         IN  IF parsed.ok THEN Returned(parsed.v, <<>>)
             ELSE Returned(Str(bufferString),
                           <<LogEntry("Error parsing buffer to JSON", bufferString)>>)

bufferToObject(buffer) ==
    IF buffer.t = "null" \/ buffer.t = "undefined" THEN Returned(Null, <<>>)
    ELSE IF StrictEquals(parseFloat(toString(buffer)), buffer)
        THEN Returned(buffer, <<>>)
    ELSE LET bufferString == toString(buffer)
             parsed == JSONparse(bufferString)
         IN  IF Len(bufferString) <= 0 THEN Returned(Null, <<>>)
             ELSE IF parsed.ok THEN Returned(parsed.v, <<>>)
             ELSE Returned(Str(bufferString),
                           <<LogEntry("Error parsing buffer to JSON", bufferString)>>)

uInt8ArrayToObject(payload) ==
    IF payload.t = "null" THEN Returned(Null, <<>>)
    ELSE IF payload.t = "undefined" THEN Raised
    ELSE IF StrictEquals(parseFloat(toString(payload)), payload)
        THEN Returned(payload, <<>>)
    ELSE LET payloadString == toString(payload)
             parsed == JSONparse(payloadString)
         IN  IF Len(payloadString) <= 0 THEN Returned(Null, <<>>)
             ELSE IF parsed.ok THEN Returned(parsed.v, <<>>)
             ELSE Returned(Str(payloadString),
                           <<LogEntry("Error parsing Uint8Array to JSON", payloadString)>>)

\* ------------------------------------------------------- iterator results
\* the items an iterator delivers: res.value of a NextResult
MkItem(key, value, isDelete, txId, seconds) ==
    [key |-> key, value |-> value, isDelete |-> isDelete, txId |-> txId,
     timestamp |-> [seconds |-> seconds]]

Items ==
    {MkItem("k1", T(<<"\"", "v", "\"">>), TRUE, "tx1", 100),
     MkItem("k2", T(<<"n", "o">>), FALSE, "tx2", 200),
     MkItem("k3", <<>>, FALSE, "tx3", 300),
     MkItem("k4", T(<<"{", "\"", "a", "\"", ":", "1", "}">>), FALSE, "tx4", 400),
     MkItem("k5", <<255>>, TRUE, "tx5", 500)}

NoItem == MkItem("", <<>>, FALSE, "", 0)

\* a NextResult {value, done}; hasValue = FALSE stands for value undefined
NextResult(hasValue, item, done) ==
    [defined |-> TRUE, hasValue |-> hasValue, value |-> item, done |-> done]

NextResults ==
    {NextResult(TRUE, it, d) : it \in Items, d \in BOOLEAN}
    \cup {NextResult(FALSE, NoItem, d) : d \in BOOLEAN}

\* let res: undefined before the first next()
NoResult == [defined |-> FALSE, hasValue |-> FALSE, value |-> NoItem, done |-> FALSE]

Errors == {"E1", "E2"}

\* the failure the iterator answered a call with
Rejection(call, error) == [call |-> call, error |-> error]
NoRejection == Rejection("none", "none")

\* ------------------------------------------- serializer / deserializer runs
StrAlphabet == {Ascii["a"], Ascii["1"], Ascii["\""], 233}

SeqsUpTo(S, n) == UNION {[1..k -> S] : k \in 0..n}

Strings == {Str(s) : s \in SeqsUpTo(StrAlphabet, MaxStrLen)}
    \cup {Str(T(<<"n", "o", "t", " ", "j", "s", "o", "n">>)),
          Str(T(<<"t", "r", "u", "e">>)), Str(T(<<"[", "]">>))}

Scalars == {Null, Bool(TRUE), Bool(FALSE), Num(0), Num(1), Num(12)} \cup Strings

FewScalars == {Null, Bool(TRUE), Num(12), Str(<<>>), Str(T(<<"1">>)),
               Str(T(<<"a", "\"">>)), Str(<<233>>)}

Keys == {T(<<"a">>), T(<<"b", "\"">>)}

Flat ==
    {Arr(<<>>), Obj(<<>>, <<>>)}
    \cup {Arr(<<x>>) : x \in Scalars}
    \cup {Arr(<<x, y>>) : x \in FewScalars, y \in FewScalars}
    \cup {Obj(<<k>>, <<x>>) : k \in Keys, x \in FewScalars}
    \cup {Obj(<<T(<<"a">>), T(<<"b", "\"">>)>>, <<x, y>>) : x \in FewScalars, y \in {Num(1)}}

FewFlat == {Arr(<<>>), Obj(<<>>, <<>>), Arr(<<Num(1), Str(T(<<"a">>))>>),
            Obj(<<T(<<"a">>)>>, <<Num(1)>>)}

Nested ==
    {Arr(<<c>>) : c \in FewFlat}
    \cup {Arr(<<c, x>>) : c \in FewFlat, x \in {Num(0)}}
    \cup {Obj(<<T(<<"a">>)>>, <<c>>) : c \in FewFlat}

\* values with a date in them, and a value that is already a Buffer
DateValues ==
    {Date(0), Date(120), Arr(<<Date(120), Num(1)>>), Obj(<<T(<<"a">>)>>, <<Date(7)>>)}

BufferValues == {Buffer(<<>>), Buffer(T(<<"a">>)), Buffer(T(<<"1", "2">>))}

Values == Scalars \cup Flat \cup Nested \cup DateValues \cup BufferValues

ByteAlphabet == {Ascii["1"], Ascii["\""], Ascii["a"], Ascii["["], Ascii["]"], 255}

ByteContents ==
    SeqsUpTo(ByteAlphabet, MaxBytes)
    \cup {T(<<"{", "\"", "a", "\"", ":", "1", "}">>),
          T(<<"n", "o", "t", " ", "j", "s", "o", "n">>),
          T(<<" ", "[", "1", ",", " ", "2", "]", " ">>),
          T(<<"0", "1">>), T(<<"n", "u", "l", "l">>),
          <<195, 169>>, <<34, 195, 169, 34>>, <<226, 130, 172>>}

Inputs == {Null, Undefined} \cup {Buffer(b) : b \in ByteContents}

\* the argument uInt8ArrayToObject receives for content c in a container of
\* shape kind (a Buffer is a Uint8Array too)
AsPayload(c, kind) ==
    IF c.t = "Buffer" /\ kind = "Uint8Array" THEN Uint8Array(c.s) ELSE c

DrainIdle ==
    /\ variant = "none" /\ pc = "idle"
    /\ res = NoResult /\ allResults = <<>>
    /\ nextCalls = 0 /\ closeCalls = 0 /\ fetched = <<>>
    /\ rejection = NoRejection
    /\ returned = [has |-> FALSE, list |-> <<>>] /\ thrown = "none"

CodecIdle ==
    /\ cstep = "idle" /\ cx = Undefined /\ cin = Undefined
    /\ retB = NotCalled /\ retU = NotCalled /\ ukind = "none" /\ logger = <<>>

CodecInit ==
    /\ DrainIdle
    /\ retB = NotCalled /\ retU = NotCalled /\ ukind = "none" /\ logger = <<>>
    /\ \/ cstep = "value" /\ cx \in Values /\ cin = Undefined
       \/ cstep = "bytes" /\ cx = Undefined /\ cin \in Inputs

Serialize ==
    /\ cstep = "value"
    /\ cin' = serialize(cx)
    /\ cstep' = "bytes"
    /\ UNCHANGED <<cx, retB, retU, ukind, logger, drainVars>>

BufferToObject ==
    /\ cstep = "bytes" /\ ~retB.called
    /\ retB' = bufferToObject(cin)
    /\ logger' = logger \o retB'.logs
    /\ UNCHANGED <<cstep, cx, cin, retU, ukind, drainVars>>

UInt8ArrayToObject ==
    /\ cstep = "bytes" /\ ~retU.called
    /\ \E kind \in {"Buffer", "Uint8Array"} :
        /\ ukind' = kind
        /\ retU' = uInt8ArrayToObject(AsPayload(cin, kind))
    /\ logger' = logger \o retU'.logs
    /\ UNCHANGED <<cstep, cx, cin, retB, drainVars>>

CodecNext == Serialize \/ BufferToObject \/ UInt8ArrayToObject

CodecSpec == CodecInit /\ [][CodecNext]_vars

\* ------------------------------------------------------- iterator draining
Variants == {"iteratorToList", "iteratorToKVList", "iteratorToHistoryList"}

\* JSON.parse(text) with the catch that falls back to the text
ParseOrRaw(text) ==
    LET parsed == JSONparse(text) IN IF parsed.ok THEN parsed.v ELSE Str(text)

\* variant: only res.value is tested, not its payload
HasUsableValueNoPayloadTest(r) == r.hasValue

\* res.value && res.value.value.toString()
HasUsableValue(r) == r.hasValue /\ Len(Utf8Decode(r.value.value)) > 0

ListRecord(item) == ParseOrRaw(Utf8Decode(item.value))

KVRecord(item) == [key |-> item.key, value |-> ParseOrRaw(Utf8Decode(item.value))]

HistoryRecord(item) ==
    [is_delete |-> item.isDelete,
     value |-> ParseOrRaw(Utf8Decode(item.value)),
     timestamp |-> item.timestamp.seconds,
     tx_id |-> item.txId]

ParsedItem(v, item) ==
    IF v = "iteratorToList" THEN ListRecord(item)
    ELSE IF v = "iteratorToKVList" THEN KVRecord(item)
    ELSE HistoryRecord(item)

\* variant: the result that carries done is not processed
AccumulateSkipsDone(v, list, r) ==
    IF ~r.done /\ r.hasValue /\ Len(Utf8Decode(r.value.value)) > 0
    THEN Append(list, ParsedItem(v, r.value)) ELSE list

\* the loop body after the await: push the record of a usable value
Accumulate(v, list, r) ==
    IF HasUsableValue(r) THEN Append(list, ParsedItem(v, r.value)) ELSE list

\* variant: while (res == null)
LoopContinuesUntilFirst(r) == ~r.defined

\* variant: while (true)
LoopContinuesAlways(r) == TRUE

\* the loop test: res == null || !res.done
LoopContinues(r) == ~r.defined \/ ~r.done

DrainInit ==
    /\ CodecIdle
    /\ variant \in Variants
    /\ pc = "loop"
    /\ res = NoResult
    /\ allResults = <<>>
    /\ nextCalls = 0 /\ closeCalls = 0 /\ fetched = <<>>
    /\ rejection = NoRejection
    /\ returned = [has |-> FALSE, list |-> <<>>]
    /\ thrown = "none"

\* while test true: res = await iterator.next() is issued
CallNext ==
    /\ pc = "loop" /\ LoopContinues(res)
    /\ nextCalls < MaxFetch
    /\ nextCalls' = nextCalls + 1
    /\ pc' = "awaitNext"
    /\ UNCHANGED <<variant, res, allResults, closeCalls, fetched, rejection,
                   returned, thrown, codecVars>>

\* the awaited next() resolves: the loop body runs on the result
NextResolves ==
    /\ pc = "awaitNext"
    /\ \E r \in NextResults :
        /\ res' = r
        /\ fetched' = Append(fetched, r)
        /\ allResults' = Accumulate(variant, allResults, r)
    /\ pc' = "loop"
    /\ UNCHANGED <<variant, nextCalls, closeCalls, rejection, returned, thrown,
                   codecVars>>

\* variant: a catch around next() ends the loop and the list is returned
NextRejectsCaught ==
    /\ pc = "awaitNext"
    /\ \E e \in Errors : rejection' = Rejection("next", e)
    /\ closeCalls' = closeCalls + 1
    /\ pc' = "awaitClose"
    /\ UNCHANGED <<variant, res, allResults, nextCalls, fetched, returned, thrown,
                   codecVars>>

\* the awaited next() rejects: nothing catches it, the call rejects
NextRejects ==
    /\ pc = "awaitNext"
    /\ \E e \in Errors : rejection' = Rejection("next", e)
    /\ thrown' = rejection'.error
    /\ pc' = "threw"
    /\ UNCHANGED <<variant, res, allResults, nextCalls, closeCalls, fetched,
                   returned, codecVars>>

\* while test false: await iterator.close() is issued
CallClose ==
    /\ pc = "loop" /\ ~LoopContinues(res)
    /\ closeCalls' = closeCalls + 1
    /\ pc' = "awaitClose"
    /\ UNCHANGED <<variant, res, allResults, nextCalls, fetched, rejection,
                   returned, thrown, codecVars>>

\* the awaited close() resolves: return allResults
CloseResolves ==
    /\ pc = "awaitClose"
    /\ returned' = [has |-> TRUE, list |-> allResults]
    /\ pc' = "returned"
    /\ UNCHANGED <<variant, res, allResults, nextCalls, closeCalls, fetched,
                   rejection, thrown, codecVars>>

\* the awaited close() rejects: the call rejects
CloseRejects ==
    /\ pc = "awaitClose"
    /\ \E e \in Errors : rejection' = Rejection("close", e)
    /\ thrown' = rejection'.error
    /\ pc' = "threw"
    /\ UNCHANGED <<variant, res, allResults, nextCalls, closeCalls, fetched,
                   returned, codecVars>>

Next ==
    \/ CallNext \/ NextResolves \/ NextRejects
    \/ CallClose \/ CloseResolves \/ CloseRejects

Spec == DrainInit /\ [][Next]_vars

\* A drain call on an iterator that answers every call and never fails: the
\* continuation after each await runs once the awaited promise has settled.
LiveNext == CallNext \/ NextResolves \/ CallClose \/ CloseResolves

LiveSpec ==
    /\ DrainInit /\ [][LiveNext]_vars
    /\ WF_vars(CallNext) /\ WF_vars(NextResolves)
    /\ WF_vars(CallClose) /\ WF_vars(CloseResolves)

\* ======================================================================
\* Properties
\* ======================================================================
SawDone == \E k \in 1..Len(fetched) : fetched[k].done

FirstDone ==
    CHOOSE k \in 1..Len(fetched) :
        fetched[k].done /\ \A j \in 1..(k - 1) : ~fetched[j].done

\* the item carries a non-empty value payload
HasPayload(r) == r.hasValue /\ r.value.value # <<>>

Expected(v, f) ==
    LET sel == SelectSeq(f, HasPayload)
    IN  [i \in 1..Len(sel) |-> ParsedItem(v, sel[i].value)]

\* C1: in a drain call whose next() calls do not fail, close() is invoked at
\* most once and only after a result with done = true was received, a list
\* is returned only after that one close(), and next() is never invoked
\* once close() has been.
C1_CloseOnceAfterDone ==
    /\ [](/\ closeCalls <= 1
          /\ (closeCalls = 1 =>
                /\ res.defined /\ res.done
                /\ fetched # <<>> /\ fetched[Len(fetched)] = res)
          /\ (returned.has => closeCalls = 1 /\ rejection = NoRejection)
          /\ (pc = "returned" => returned.has /\ returned.list = allResults))
    /\ [][closeCalls >= 1 => nextCalls' = nextCalls]_vars

C1_Witness ==
    /\ pc = "returned" /\ returned.has
    /\ closeCalls = 1 /\ nextCalls = 3 /\ Len(fetched) = 3

\* C2: on every exit of a drain call, also the exit by a failing next(), the
\* iterator has been closed exactly once.
C2_ClosedOnEveryExit ==
    pc \in {"returned", "threw"} => closeCalls = 1

\* C3: the returned list holds, in fetch order, exactly one derived record
\* for each fetched item with a non-empty value payload, and nothing else.
C3_ListIsRecordsOfPayloads ==
    returned.has =>
        /\ returned.list = Expected(variant, fetched)
        /\ Len(returned.list) = Cardinality({k \in 1..Len(fetched) : HasPayload(fetched[k])})

\* three valued items, then done without a value: a list of three
C3_Witness ==
    /\ returned.has /\ Len(fetched) = 4
    /\ \A k \in 1..3 : HasPayload(fetched[k]) /\ ~fetched[k].done
    /\ ~fetched[4].hasValue /\ fetched[4].done
    /\ Len(returned.list) = 3

\* C8: a failing next() ends the call with that same failure: no list is
\* returned, close() is not invoked, and no further next() is issued.
C8_NextFailurePropagates ==
    /\ [](rejection.call = "next" =>
            /\ pc = "threw" /\ thrown = rejection.error
            /\ ~returned.has)
    /\ [][rejection.call = "next" => nextCalls' = nextCalls /\ ~returned'.has]_vars

C8_Witness ==
    /\ pc = "threw" /\ rejection.call = "next" /\ thrown = "E2"
    /\ Len(allResults) = 2 /\ nextCalls = 3

\* C9: the result that carries done = true is processed like any other: when
\* it carries an item with a non-empty payload, the record of that item is
\* the last element of the returned list.
C9_ItemWithDoneIsKept ==
    returned.has =>
        /\ fetched # <<>> /\ fetched[Len(fetched)].done
        /\ (HasPayload(fetched[Len(fetched)]) =>
              /\ returned.list # <<>>
              /\ returned.list[Len(returned.list)]
                   = ParsedItem(variant, fetched[Len(fetched)].value))

C9_Witness ==
    /\ returned.has /\ Len(fetched) = 2
    /\ HasPayload(fetched[2]) /\ fetched[2].done
    /\ Len(returned.list) = 2

RECURSIVE JsonSafe(_)
JsonSafe(x) ==
    \/ x.t \in {"null", "boolean", "number", "string"}
    \/ /\ x.t \in {"array", "object"}
       /\ \A i \in 1..Len(x.items) : JsonSafe(x.items[i])

\* a string that serialize writes unquoted and that bufferToObject reads back
\* as something else: the empty string, or a string that is JSON text
ReadsBackDifferently(x) ==
    x.t = "string" /\ (x.s = <<>> \/ JSONparse(x.s).ok)

RoundTripDone == cstep = "bytes" /\ cx # Undefined /\ retB.called

\* C4 as stated: bufferToObject(serialize(x)) = x for every JSON-safe x
\* without dates.
C4_RoundTrip ==
    RoundTripDone /\ JsonSafe(cx) => ~retB.raised /\ retB.v = cx

\* C4 amended: the same, for every such x other than the empty string and
\* the strings that are themselves JSON text.
C4_RoundTripAmended ==
    RoundTripDone /\ JsonSafe(cx) /\ ~ReadsBackDifferently(cx)
        => ~retB.raised /\ retB.v = cx

C4_Witness ==
    /\ RoundTripDone /\ cx.t = "object" /\ Len(cx.items) = 2
    /\ cx.items[1].t = "string" /\ cx.items[1].s = <<233>>
    /\ retB.v = cx

\* C5: neither entry point raises, and both return null for null or absent
\* input.
C5_NeverRaises ==
    /\ retB.called =>
        ~retB.raised /\ (cin \in {Null, Undefined} => retB.v = Null)
    /\ retU.called =>
        ~retU.raised /\ (cin \in {Null, Undefined} => retU.v = Null)

\* C6: for the same bytes, bufferToObject on a Buffer and uInt8ArrayToObject
\* on a Uint8Array return the same result.
C6_SameSemantics ==
    retB.called /\ retU.called /\ cin.t = "Buffer" /\ ukind = "Uint8Array"
        => retB.raised = retU.raised /\ retB.v = retU.v

BufferErrors ==
    Cardinality({i \in 1..Len(logger) :
                    logger[i].label = "Error parsing buffer to JSON"})

JsonValues == {x \in Values : JsonSafe(x)}

\* C7: for byte input, bufferToObject returns null for text of zero length,
\* the parsed structure for JSON text, logging nothing, and the text itself
\* otherwise, logging exactly one error.
C7_DeserializerCases ==
    retB.called /\ cin.t = "Buffer" =>
        LET text == Utf8Decode(cin.s)
        IN  /\ ~retB.raised
            /\ text = <<>> => retB.v = Null /\ BufferErrors = 0
            /\ text # <<>> /\ JSONparse(text).ok =>
                  retB.v = JSONparse(text).v /\ BufferErrors = 0
            /\ text # <<>> /\ ~JSONparse(text).ok =>
                  retB.v = Str(text) /\ BufferErrors = 1
            /\ \A x \in JsonValues :
                  text = JSONstringify(x) => retB.v = x /\ BufferErrors = 0
            /\ text = T(<<"{", "\"", "a", "\"", ":", "1", "}">>) =>
                  retB.v = Obj(<<T(<<"a">>)>>, <<Num(1)>>)
            /\ text = T(<<"n", "o", "t", " ", "j", "s", "o", "n">>) =>
                  retB.v = Str(text) /\ BufferErrors = 1

C7_Witness ==
    /\ retB.called /\ cx = Undefined
    /\ cin = Buffer(T(<<"n", "o", "t", " ", "j", "s", "o", "n">>))
    /\ retB.v.t = "string" /\ BufferErrors = 1

====
